---- MODULE Spec2Model ----
(***************************************************************************)
(* Model of the legged robot of src/robot/RobotAPattes.py on top of the    *)
(* base class of src/robot/robot.py.                                       *)
(*                                                                         *)
(* Numbers.  Angles are counted in quarter turns (pi/2): orientation k     *)
(* stands for the float k*pi/2, and orientation 4 for the float 2*pi       *)
(* itself, which Python's float % returns when a negative sum is too       *)
(* small to be told apart from 2*pi after rounding.  On this grid          *)
(* cos and sin are taken at their real values 0, 1, -1 (the residue of     *)
(* about 1e-16 that math.cos(math.pi/2) leaves is not modelled);           *)
(* positions are integer pairs.  math.pi is PiNum/PiDen, which gives the   *)
(* same truncated rotation costs as the float for every angle of the       *)
(* model.                                                                  *)
(*                                                                         *)
(* Construction.  SpecNew models the call RobotAPattes(...) as Python      *)
(* resolves it.  Spec and SpecEnergy start from the fields that the body   *)
(* of Robot.init and RobotAPattes.__init__ assign, and model the methods   *)
(* of an object in that state.                                             *)
(***************************************************************************)
EXTENDS Integers, Sequences, FiniteSets, TLC

VARIABLES obj, position, orientation, energy_source, nombre_pattes,
          is_active, generator_level, lastOp, err, args,
          streak,
          battery_level, payload, destination, sensor_range, printed,
          moves, pending

vars == <<obj, position, orientation, energy_source, nombre_pattes,
          is_active, generator_level, lastOp, err, args,
          streak,
          battery_level, payload, destination, sensor_range, printed,
          moves, pending>>

fields == <<position, orientation, generator_level, is_active>>

(* the attributes and output of ExplorerRobot and DeliveryRobot, with the  *)
(* count of their moves that went through and the item loaded last         *)
simple == <<battery_level, payload, destination, sensor_range, printed,
            moves, pending>>

(* the fields and history of the legged robot *)
legged == <<orientation, energy_source, nombre_pattes, is_active,
            generator_level, args, streak>>

(* ------------------------------ bounds -------------------------------- *)
MaxCoord == 5
MaxTurns == 5
(* streak counts consecutive recharge calls up to MaxStreak *)
MaxStreak == 7

(* ----------------------------- constants ------------------------------ *)
PiNum == 355
PiDen == 113

ENERGY_SOURCE == {"solar", "fossil_fuel", "electric"}
Directions == {"forward", "backward", "left", "right"}

Max(a, b) == IF a >= b THEN a ELSE b
Min(a, b) == IF a <= b THEN a ELSE b
Abs(a) == IF a < 0 THEN -a ELSE a

(* str.lower() on the energy source spellings of the model *)
Lower(s) ==
    CASE s \in {"solar", "Solar", "SOLAR"} -> "solar"
      [] s \in {"electric", "Electric", "ELECTRIC"} -> "electric"
      [] s \in {"fossil_fuel", "Fossil_Fuel", "FOSSIL_FUEL"} -> "fossil_fuel"
      [] OTHER -> s

(* value of args while no constructor call has been made *)
NoArgs == [id_ok |-> TRUE, energy_source |-> "", legs |-> [kind |-> "none", v |-> 0]]

(* inputs *)
LegCounts == {2, 4, 6, 8, 10}
Sources == {"Solar", "ELECTRIC", "fossil_fuel"}
(* one robot per leg count, the source spelled in several cases *)
Configs == {<<2, "Solar">>, <<4, "ELECTRIC">>, <<6, "fossil_fuel">>,
            <<8, "electric">>, <<10, "SOLAR">>}
DistanceInputs == {-5, 0, 5, 10}
(* move calls that fail validation: unknown direction, distance <= 0 *)
InvalidMoves == {<<"up", 5>>, <<"up", 0>>, <<"forward", 0>>,
                 <<"left", -5>>, <<"backward", -5>>}
(* every direction with every positive distance, and the invalid calls *)
MoveInputs ==
    (Directions \X {d \in DistanceInputs : d > 0}) \cup InvalidMoves
AngleInputs ==
    [kind : {"num"}, q : (-MaxTurns)..MaxTurns]
      \cup {[kind |-> "tiny_neg", q |-> 0], [kind |-> "str", q |-> 0]}

(* math.cos / math.sin at k quarter turns *)
Cos4(k) == CASE k % 4 = 0 -> 1 [] k % 4 = 2 -> -1 [] OTHER -> 0
Sin4(k) == CASE k % 4 = 1 -> 1 [] k % 4 = 3 -> -1 [] OTHER -> 0

(* tenths: 0.8, 1.0, 1.2, 1.1, 0.7 *)
CalculateSpeedFactor(legs) ==
    IF legs = 2 THEN 8
    ELSE IF legs = 4 THEN 10
    ELSE IF legs = 6 THEN 12
    ELSE IF legs = 8 THEN 11
    ELSE 7

(* variant: the leg factor is left out of the cost *)
CalculateEnergyCostNoLegs(legs, actual10) ==
    LET base_cost100 == actual10
    IN  (base_cost100 * 100) \div 10000

(* actual10 is the distance in tenths; base_cost = actual * 0.1,           *)
(* leg_factor = legs * 0.05, result int(base_cost * (1 + leg_factor))      *)
CalculateEnergyCost(legs, actual10) ==
    LET base_cost100 == actual10
        leg_factor100 == legs * 5
    IN  (base_cost100 * (100 + leg_factor100)) \div 10000

InRange(p) == Abs(p[1]) <= MaxCoord /\ Abs(p[2]) <= MaxCoord

NewPosition(direction, distance) ==
    LET x == position[1]
        y == position[2]
    IN  IF direction = "forward"
          THEN <<x + distance * Cos4(orientation), y + distance * Sin4(orientation)>>
        ELSE IF direction = "backward"
          THEN <<x - distance * Cos4(orientation), y - distance * Sin4(orientation)>>
        ELSE IF direction = "left"
          THEN <<x + distance * Cos4(orientation + 1), y + distance * Sin4(orientation + 1)>>
        ELSE <<x + distance * Cos4(orientation - 1 + 4), y + distance * Sin4(orientation - 1 + 4)>>

(* variant: the distance is validated only after the position update *)
MoveLateCheck(direction, distance) ==
    /\ obj = "alive"
    /\ lastOp' = "move"
    /\ UNCHANGED <<obj, energy_source, nombre_pattes, args, simple>>
    /\ streak' = 0
    /\ IF ~is_active
         THEN err' = "none" /\ UNCHANGED fields
       ELSE IF direction \notin Directions
         THEN err' = "ValueError" /\ UNCHANGED fields
       ELSE /\ InRange(NewPosition(direction, distance))
            /\ position' = NewPosition(direction, distance)
            /\ UNCHANGED <<orientation, is_active>>
            /\ IF distance <= 0
                 THEN err' = "ValueError" /\ UNCHANGED generator_level
               ELSE /\ generator_level' =
                         Max(0, generator_level
                                  - CalculateEnergyCost(nombre_pattes,
                                        distance * CalculateSpeedFactor(nombre_pattes)))
                    /\ err' = "none"

(* variant: an empty generator refuses the move *)
MoveEnergyGate(direction, distance) ==
    /\ obj = "alive"
    /\ lastOp' = "move"
    /\ UNCHANGED <<obj, energy_source, nombre_pattes, args, simple>>
    /\ streak' = 0
    /\ IF ~is_active \/ generator_level <= 0
         THEN err' = "none" /\ UNCHANGED fields
       ELSE IF direction \notin Directions
         THEN err' = "ValueError" /\ UNCHANGED fields
       ELSE IF distance <= 0
         THEN err' = "ValueError" /\ UNCHANGED fields
       ELSE /\ InRange(NewPosition(direction, distance))
            /\ position' = NewPosition(direction, distance)
            /\ generator_level' =
                 Max(0, generator_level
                          - CalculateEnergyCost(nombre_pattes,
                                distance * CalculateSpeedFactor(nombre_pattes)))
            /\ err' = "none"
            /\ UNCHANGED <<orientation, is_active>>

Move(direction, distance) ==
    /\ obj = "alive"
    /\ lastOp' = "move"
    /\ UNCHANGED <<obj, energy_source, nombre_pattes, args, simple>>
    /\ streak' = 0
    /\ IF ~is_active
         THEN err' = "none" /\ UNCHANGED fields
       ELSE IF direction \notin Directions
         THEN err' = "ValueError" /\ UNCHANGED fields
       ELSE IF distance <= 0
         THEN err' = "ValueError" /\ UNCHANGED fields
       ELSE LET speed_factor == CalculateSpeedFactor(nombre_pattes)
                actual_distance == distance * speed_factor
                energy_cost == CalculateEnergyCost(nombre_pattes, actual_distance)
            IN  /\ InRange(NewPosition(direction, distance))
                /\ position' = NewPosition(direction, distance)
                /\ generator_level' = Max(0, generator_level - energy_cost)
                /\ err' = "none"
                /\ UNCHANGED <<orientation, is_active>>

(* (orientation + angle) % (2 * math.pi) in float arithmetic *)
FloatModTurn(o, angle) ==
    IF angle.kind = "tiny_neg"
      THEN IF o = 0 THEN 4          \* fmod gives -eps, then -eps + 2*pi rounds to 2*pi
           ELSE IF o = 4 THEN 0     \* 2*pi - eps rounds to 2*pi, remainder 0.0
           ELSE o                   \* k*pi/2 - eps rounds to k*pi/2
      ELSE (o + angle.q) % 4

(* variant: the cost is taken from the signed angle *)
RotateCostSigned(legs, angle) ==
    IF angle.kind = "tiny_neg" THEN 0
    ELSE (angle.q * PiNum * 10 * 6) \div (PiDen * 2 * Min(6, legs))

(* int(abs(angle) * (10 / min(1.0, legs / 6.0))) *)
RotateCost(legs, angle) ==
    IF angle.kind = "tiny_neg" THEN 0
    ELSE (Abs(angle.q) * PiNum * 10 * 6) \div (PiDen * 2 * Min(6, legs))

(* variant: the angle is validated before the activity check *)
RotateValidateFirst(angle) ==
    /\ obj = "alive"
    /\ lastOp' = "rotate"
    /\ UNCHANGED <<obj, energy_source, nombre_pattes, args, simple>>
    /\ streak' = 0
    /\ IF angle.kind = "str"
         THEN err' = "TypeError" /\ UNCHANGED fields
       ELSE IF ~is_active
         THEN err' = "none" /\ UNCHANGED fields
       ELSE /\ orientation' = FloatModTurn(orientation, angle)
            /\ generator_level' = Max(0, generator_level - RotateCost(nombre_pattes, angle))
            /\ err' = "none"
            /\ UNCHANGED <<position, is_active>>

Rotate(angle) ==
    /\ obj = "alive"
    /\ lastOp' = "rotate"
    /\ UNCHANGED <<obj, energy_source, nombre_pattes, args, simple>>
    /\ streak' = 0
    /\ IF ~is_active
         THEN err' = "none" /\ UNCHANGED fields
       ELSE IF angle.kind = "str"
         THEN err' = "TypeError" /\ UNCHANGED fields
       ELSE /\ orientation' = FloatModTurn(orientation, angle)
            /\ generator_level' = Max(0, generator_level - RotateCost(nombre_pattes, angle))
            /\ err' = "none"
            /\ UNCHANGED <<position, is_active>>

(* int(5 * (1 / min(1.0, legs / 4.0))) *)
StopCost(legs) == (5 * 4) \div Min(4, legs)

(* variant: the level is not clamped at 0 *)
StopNoClamp ==
    /\ obj = "alive"
    /\ lastOp' = "stop"
    /\ err' = "none"
    /\ UNCHANGED <<obj, energy_source, nombre_pattes, args, simple>>
    /\ streak' = 0
    /\ IF ~is_active
         THEN UNCHANGED fields
       ELSE /\ generator_level' = generator_level - StopCost(nombre_pattes)
            /\ UNCHANGED <<position, orientation, is_active>>

Stop ==
    /\ obj = "alive"
    /\ lastOp' = "stop"
    /\ err' = "none"
    /\ UNCHANGED <<obj, energy_source, nombre_pattes, args, simple>>
    /\ streak' = 0
    /\ IF ~is_active
         THEN UNCHANGED fields
       ELSE /\ generator_level' = Max(0, generator_level - StopCost(nombre_pattes))
            /\ UNCHANGED <<position, orientation, is_active>>

(* recharge_rate of the branch taken; Unbound when no branch assigns it *)
Unbound == -1

(* variant: the energy source is compared without lower() *)
RechargeRateCaseSensitive(source, legs) ==
    IF source = "solar" THEN 15 + (legs * 2)
    ELSE IF source = "electric" THEN 25 + legs
    ELSE IF Lower(source) = "fossil_fuel" THEN 35
    ELSE 35

(* variant: the solar base rate is 5 *)
RechargeRateSlow(source, legs) ==
    IF Lower(source) = "solar" THEN 5 + (legs * 2)
    ELSE IF Lower(source) = "electric" THEN 25 + legs
    ELSE IF Lower(source) = "fossil_fuel" THEN 35
    ELSE Unbound

RechargeRate(source, legs) ==
    IF Lower(source) = "solar" THEN 15 + (legs * 2)
    ELSE IF Lower(source) = "electric" THEN 25 + legs
    ELSE IF Lower(source) = "fossil_fuel" THEN 35
    ELSE Unbound

Recharge ==
    /\ obj = "alive"
    /\ lastOp' = "recharge"
    /\ UNCHANGED <<obj, energy_source, nombre_pattes, args, simple>>
    /\ streak' = Min(streak + 1, MaxStreak)
    /\ IF generator_level >= 100
         THEN err' = "none" /\ UNCHANGED fields
       ELSE LET initial_level == generator_level
                recharge_rate == RechargeRate(energy_source, nombre_pattes)
            IN  IF recharge_rate = Unbound
                  THEN err' = "UnboundLocalError" /\ UNCHANGED fields
                ELSE /\ generator_level' = Min(100, initial_level + recharge_rate)
                     /\ err' = "none"
                     /\ UNCHANGED <<position, orientation, is_active>>

SetActive(active) ==
    /\ obj = "alive"
    /\ lastOp' = "set_active"
    /\ err' = "none"
    /\ is_active' = active
    /\ UNCHANGED <<obj, energy_source, nombre_pattes, args, position, orientation, generator_level>>
    /\ UNCHANGED simple
    /\ streak' = 0

(* values of the variables of the robot kinds that a behaviour leaves out *)
NoSimple ==
    /\ battery_level = 0
    /\ payload = "None"
    /\ destination = <<0, 0>>
    /\ sensor_range = 0
    /\ printed = <<"", "">>
    /\ moves = 0
    /\ pending = "None"

(* the fields as Robot.init and RobotAPattes.__init__ assign them *)
Constructed(legs, source) ==
    /\ NoSimple
    /\ streak = 0
    /\ obj = "alive"
    /\ position = <<0, 0>>
    /\ orientation \in 0..3
    /\ energy_source = source
    /\ nombre_pattes = legs
    /\ is_active = TRUE
    /\ generator_level = 100
    /\ lastOp = "init"
    /\ err = "none"
    /\ args = NoArgs

Init == \E c \in Configs : Constructed(c[1], c[2])

(* every leg count with every source, for the calls that do not move *)
InitAll == \E legs \in LegCounts, source \in Sources : Constructed(legs, source)

Next ==
    \/ \E m \in MoveInputs : Move(m[1], m[2])
    \/ \E angle \in AngleInputs : Rotate(angle)
    \/ Stop
    \/ Recharge
    \/ \E active \in BOOLEAN : SetActive(active)

Spec == Init /\ [][Next]_vars

NextEnergy ==
    \/ \E angle \in AngleInputs : Rotate(angle)
    \/ Stop
    \/ Recharge
    \/ \E active \in BOOLEAN : SetActive(active)

SpecEnergy == InitAll /\ [][NextEnergy]_vars

(* ------------------- construction: RobotAPattes(...) ------------------ *)
(* names bound in each class body; abc.ABC binds none of those looked up  *)
Defines(cls) ==
    CASE cls = "Robot" ->
           {"ENERGY_SOURCE", "init", "id", "name", "position", "orientation",
            "energy_source", "generator_level", "is_active", "move", "rotate",
            "stop", "recharge", "status", "str", "repr", "eq"}
      [] cls = "ABC" -> {}
      [] cls = "object" -> {"__init__", "__new__", "__str__", "__repr__", "__eq__"}

(* the classes after RobotAPattes in its method resolution order *)
SuperMRO == <<"Robot", "ABC", "object">>

(* super().<name>: the first class of SuperMRO that binds the name *)
Resolve(name) ==
    LET hits == {i \in 1..Len(SuperMRO) : name \in Defines(SuperMRO[i])}
    IN  SuperMRO[CHOOSE i \in hits : \A j \in hits : i <= j]

(* body of Robot.init: type checks, energy source check, assignments *)
RobotInit(a) ==
    IF ~a.id_ok THEN "TypeError"
    ELSE IF Lower(a.energy_source) \notin ENERGY_SOURCE THEN "ValueError"
    ELSE "ok"

(* object.__init__ called with five extra arguments *)
ObjectInit(a) == "TypeError"

SuperInit(a) ==
    IF Resolve("__init__") = "Robot" THEN RobotInit(a) ELSE ObjectInit(a)

LegsAccepted(l) ==
    ~(~(l.kind \in {"int", "bool"}) \/ l.v < 2 \/ l.v % 2 # 0)

MaxLegsInput == 10

LegInputs ==
    [kind : {"int"}, v : (-3)..MaxLegsInput]
      \cup {[kind |-> "float", v |-> 4], [kind |-> "str", v |-> 0], [kind |-> "bool", v |-> 1]}

NewInputs ==
    [id_ok : BOOLEAN,
     energy_source : {"solar", "Solar", "ELECTRIC", "fossil_fuel", "nuclear"},
     legs : LegInputs]

New(a) ==
    /\ UNCHANGED <<simple, streak>>
    /\ lastOp' = "new"
    /\ args' = a
    /\ LET r == SuperInit(a)
       IN  IF r # "ok"
             THEN /\ err' = r
                  /\ obj' = "absent"
                  /\ UNCHANGED <<position, orientation, energy_source, nombre_pattes,
                                 is_active, generator_level>>
           ELSE IF ~LegsAccepted(a.legs)
             THEN /\ err' = "ValueError"
                  /\ obj' = "absent"
                  /\ UNCHANGED <<position, orientation, energy_source, nombre_pattes,
                                 is_active, generator_level>>
           ELSE /\ err' = "none"
                /\ obj' = "alive"
                /\ position' = <<0, 0>>
                /\ orientation' = 0
                /\ energy_source' = a.energy_source
                /\ nombre_pattes' = a.legs.v
                /\ is_active' = TRUE
                /\ generator_level' = 100

InitNew ==
    /\ NoSimple
    /\ streak = 0
    /\ obj = "absent"
    /\ position = <<0, 0>>
    /\ orientation = 0
    /\ energy_source = ""
    /\ nombre_pattes = 0
    /\ is_active = FALSE
    /\ generator_level = 0
    /\ lastOp = "none"
    /\ err = "none"
    /\ args = NoArgs

NextNew == \E a \in NewInputs : New(a)

SpecNew == InitNew /\ [][NextNew]_vars

(* --------------- ExplorerRobot and DeliveryRobot ---------------------- *)
(* The base class these two call as Robot(name, position), with the        *)
(* attributes _name, _position and _battery_level, is not among the        *)
(* sources; its initial battery of 100 is taken from the specification.    *)
(* None is written "None".                                                 *)
StartPositions == {<<0, 0>>, <<3, -2>>}
SensorRanges == {5, 8}
Destinations == {<<5, 5>>, <<10, 10>>, <<0, 0>>}
Items == {"Colis A", "Colis B", "None"}
StartLevels == {5, 9, 10, 14, 15, 100}

(* Robot.__init__(name, position) of the simplified base *)
SimpleBase(level) ==
    /\ position \in StartPositions
    /\ battery_level = level
    /\ printed = <<"", "">>
    /\ moves = 0
    /\ pending = "None"
    /\ lastOp = "init"
    /\ err = "none"
    /\ orientation = 0
    /\ energy_source = ""
    /\ nombre_pattes = 0
    /\ is_active = FALSE
    /\ generator_level = 0
    /\ args = NoArgs
    /\ streak = 0

ExplorerInit(level) ==
    /\ obj = "explorer"
    /\ SimpleBase(level)
    /\ sensor_range \in SensorRanges
    /\ payload = "None"
    /\ destination = <<0, 0>>

DeliveryInit(level) ==
    /\ obj = "delivery"
    /\ SimpleBase(level)
    /\ payload = "None"
    /\ destination \in Destinations
    /\ sensor_range = 0

(* variant: a battery of exactly 10 is refused *)
ExplorerMoveStrict ==
    /\ obj = "explorer"
    /\ lastOp' = "move"
    /\ err' = "none"
    /\ UNCHANGED <<obj, legged, payload, destination, sensor_range, pending>>
    /\ IF battery_level <= 10
         THEN /\ printed' = <<"pas assez de batterie pour bouger", "">>
              /\ UNCHANGED <<position, battery_level, moves>>
       ELSE /\ position' = <<position[1] + 1, position[2] + 1>>
            /\ battery_level' = battery_level - 10
            /\ printed' = <<"explore vers", "">>
            /\ moves' = moves + 1

ExplorerMove ==
    /\ obj = "explorer"
    /\ lastOp' = "move"
    /\ err' = "none"
    /\ UNCHANGED <<obj, legged, payload, destination, sensor_range, pending>>
    /\ IF battery_level < 10
         THEN /\ printed' = <<"pas assez de batterie pour bouger", "">>
              /\ UNCHANGED <<position, battery_level, moves>>
       ELSE LET new_x == position[1] + 1
                new_y == position[2] + 1
            IN  /\ position' = <<new_x, new_y>>
                /\ battery_level' = battery_level - 10
                /\ printed' = <<"explore vers", "">>
                /\ moves' = moves + 1

ScanArea ==
    /\ obj = "explorer"
    /\ lastOp' = "scan_area"
    /\ err' = "none"
    /\ printed' = <<"scanne une zone", "">>
    /\ UNCHANGED <<obj, legged, position, battery_level, payload, destination,
                   sensor_range, moves, pending>>

(* variant: a battery of exactly 15 is refused *)
DeliveryMoveStrict ==
    /\ obj = "delivery"
    /\ lastOp' = "move"
    /\ err' = "none"
    /\ UNCHANGED <<obj, legged, payload, destination, sensor_range, pending>>
    /\ IF battery_level <= 15
         THEN /\ printed' = <<"pas assez de batterie pour livrer", "">>
              /\ UNCHANGED <<position, battery_level, moves>>
       ELSE /\ position' = destination
            /\ battery_level' = battery_level - 15
            /\ printed' = <<"se dirige vers", "">>
            /\ moves' = moves + 1

(* variant: a robot already at its destination does not pay *)
DeliveryMoveFreeIfThere ==
    /\ obj = "delivery"
    /\ lastOp' = "move"
    /\ err' = "none"
    /\ UNCHANGED <<obj, legged, payload, destination, sensor_range, pending>>
    /\ IF battery_level < 15
         THEN /\ printed' = <<"pas assez de batterie pour livrer", "">>
              /\ UNCHANGED <<position, battery_level, moves>>
       ELSE /\ position' = destination
            /\ battery_level' = IF position = destination THEN battery_level
                                ELSE battery_level - 15
            /\ printed' = <<"se dirige vers", "">>
            /\ moves' = moves + 1

DeliveryMove ==
    /\ obj = "delivery"
    /\ lastOp' = "move"
    /\ err' = "none"
    /\ UNCHANGED <<obj, legged, payload, destination, sensor_range, pending>>
    /\ IF battery_level < 15
         THEN /\ printed' = <<"pas assez de batterie pour livrer", "">>
              /\ UNCHANGED <<position, battery_level, moves>>
       ELSE /\ position' = destination
            /\ battery_level' = battery_level - 15
            /\ printed' = <<"se dirige vers", "">>
            /\ moves' = moves + 1

Load(item) ==
    /\ obj = "delivery"
    /\ lastOp' = "load"
    /\ err' = "none"
    /\ payload' = item
    /\ printed' = <<"a charge", item>>
    /\ pending' = item
    /\ UNCHANGED <<obj, legged, position, battery_level, destination,
                   sensor_range, moves>>

(* variant: the payload is cleared before it is printed *)
UnloadClearFirst ==
    /\ obj = "delivery"
    /\ lastOp' = "unload"
    /\ err' = "none"
    /\ printed' = <<"a livre", "None">>
    /\ payload' = "None"
    /\ pending' = "None"
    /\ UNCHANGED <<obj, legged, position, battery_level, destination,
                   sensor_range, moves>>

Unload ==
    /\ obj = "delivery"
    /\ lastOp' = "unload"
    /\ err' = "none"
    /\ printed' = <<"a livre", payload>>
    /\ payload' = "None"
    /\ pending' = "None"
    /\ UNCHANGED <<obj, legged, position, battery_level, destination,
                   sensor_range, moves>>

NextSimple ==
    \/ ExplorerMove
    \/ ScanArea
    \/ DeliveryMove
    \/ \E item \in Items : Load(item)
    \/ Unload

(* both kinds as constructed, battery 100 *)
InitSimple == ExplorerInit(100) \/ DeliveryInit(100)

SpecSimple == InitSimple /\ [][NextSimple]_vars

(* both kinds with the battery attribute preset to a level of StartLevels *)
InitSimpleAny == \E level \in StartLevels : ExplorerInit(level) \/ DeliveryInit(level)

SpecSimpleAny == InitSimpleAny /\ [][NextSimple]_vars

(* ------------------------------ claims -------------------------------- *)
ValidDistances == {d \in DistanceInputs : d > 0}
NumericAngles == {a \in AngleInputs : a.kind # "str"}

(* speed factor in tenths as the specification tabulates it *)
SpecSpeedFactor10 ==
    CASE nombre_pattes = 2 -> 8
      [] nombre_pattes = 4 -> 10
      [] nombre_pattes = 6 -> 12
      [] nombre_pattes = 8 -> 11
      [] OTHER -> 7

(* unit vector of a direction at the current orientation *)
DirX(direction) ==
    CASE direction = "forward" -> Cos4(orientation)
      [] direction = "backward" -> -Cos4(orientation)
      [] direction = "left" -> Cos4(orientation + 1)
      [] direction = "right" -> Cos4(orientation + 3)
DirY(direction) ==
    CASE direction = "forward" -> Sin4(orientation)
      [] direction = "backward" -> -Sin4(orientation)
      [] direction = "left" -> Sin4(orientation + 1)
      [] direction = "right" -> Sin4(orientation + 3)

(* C1: after any sequence of move, rotate, stop and recharge calls (and   *)
(* activity changes), failing calls included, generator_level is an       *)
(* integer between 0 and 100.                                             *)
Thm_C1 == obj = "alive" => generator_level \in 0..100

(* a stop call has driven the level to the lower clamp *)
Wit_C1 == lastOp = "stop" /\ is_active /\ generator_level = 0

(* C2: stop() on an active robot makes it inactive, so a move or rotate   *)
(* issued right after a stop() leaves position and orientation unchanged. *)
Claim_C2 ==
    [][ /\ ((lastOp' = "stop" /\ is_active) => ~is_active')
        /\ ((lastOp = "stop" /\ lastOp' \in {"move", "rotate"})
              => (position' = position /\ orientation' = orientation)) ]_vars

(* C3: a second stop() right after a stop() changes nothing and neither   *)
(* call raises.                                                           *)
Claim_C3 ==
    [][ (lastOp = "stop" /\ lastOp' = "stop")
          => (fields' = fields /\ err = "none" /\ err' = "none") ]_vars

(* C4: a valid move on an active robot displaces the position by          *)
(* distance x speedFactor(legCount) along the direction vector, for every *)
(* leg count, and leaves the orientation alone (coordinates in tenths).   *)
Claim_C4 ==
    [][ \A direction \in Directions, distance \in ValidDistances :
          (is_active /\ Move(direction, distance))
            => /\ 10 * (position'[1] - position[1])
                    = distance * SpecSpeedFactor10 * DirX(direction)
               /\ 10 * (position'[2] - position[2])
                    = distance * SpecSpeedFactor10 * DirY(direction)
               /\ orientation' = orientation ]_vars

(* distance argument of the move step being taken, read off the step *)
Travelled == Abs(position'[1] - position[1]) + Abs(position'[2] - position[2])

(* C5: a valid move on an active robot leaves generator_level at          *)
(* max(0, before - floor(distance x speedFactor x 0.1 x (1 + legs x       *)
(* 0.05))); a 4-legged robot at (0,0), orientation 0, level 100 moving    *)
(* forward 5 ends at (5,0) with level 100.                                *)
Thm_C5 ==
    [][ (is_active /\ lastOp' = "move" /\ err' = "none")
          => /\ generator_level' =
                  Max(0, generator_level
                           - ((Travelled * SpecSpeedFactor10 * (20 + nombre_pattes))
                                \div 2000))
             /\ (nombre_pattes = 4 /\ position = <<0, 0>> /\ orientation = 0
                   /\ generator_level = 100 /\ Move("forward", 5))
                  => (position' = <<5, 0>> /\ generator_level' = 100) ]_vars

(* a 4-legged robot has just paid 1 for a move of 10 *)
Wit_C5 ==
    /\ lastOp = "move" /\ err = "none" /\ is_active
    /\ nombre_pattes = 4 /\ generator_level = 99 /\ position = <<5, 0>>

(* C6: on an active robot a move with an unknown direction or a           *)
(* distance <= 0, and a rotate with a non-numeric angle, raise an error   *)
(* and leave position, orientation, generator_level and is_active alone.  *)
Thm_C6 ==
    [][ is_active =>
          /\ lastOp' = "move" =>
               \A m \in MoveInputs :
                 ((m[1] \notin Directions \/ m[2] <= 0) /\ Move(m[1], m[2]))
                   => (err' \in {"ValueError", "TypeError"} /\ fields' = fields)
          /\ lastOp' = "rotate" =>
               \A angle \in AngleInputs :
                 (angle.kind = "str" /\ Rotate(angle))
                   => (err' \in {"ValueError", "TypeError"} /\ fields' = fields) ]_vars

(* a move call has been rejected on an active robot away from its start *)
Wit_C6 ==
    /\ lastOp = "move" /\ err = "ValueError" /\ is_active
    /\ position # <<0, 0>> /\ generator_level < 100

(* C7: on an inactive robot every move, rotate or stop call, and every    *)
(* recharge call at level >= 100, raises nothing and leaves position,     *)
(* orientation, generator_level and is_active alone.                      *)
Thm_C7 ==
    [][ ( \/ (~is_active /\ lastOp' \in {"move", "rotate", "stop"})
          \/ (generator_level >= 100 /\ lastOp' = "recharge") )
          => (err' = "none" /\ fields' = fields) ]_vars

(* a rotate call has returned on an inactive robot *)
Wit_C7 == lastOp = "rotate" /\ ~is_active /\ err = "none" /\ generator_level < 100

(* C8: rotate(angle) with a numeric angle on an active robot sets the     *)
(* orientation to (orientation + angle) mod 2*pi, which lies in           *)
(* [0, 2*pi), i.e. below 4 quarter turns, and keeps the position.         *)
Claim_C8 ==
    [][ \A angle \in NumericAngles :
          (is_active /\ Rotate(angle))
            => /\ orientation' \in 0..3
               /\ angle.kind = "num" => orientation' = (orientation + angle.q) % 4
               /\ position' = position ]_vars

(* recharge rate as the specification states it *)
SpecRechargeRate ==
    CASE energy_source \in {"solar", "Solar", "SOLAR"} -> 15 + 2 * nombre_pattes
      [] energy_source \in {"electric", "Electric", "ELECTRIC"} -> 25 + nombre_pattes
      [] energy_source \in {"fossil_fuel", "Fossil_Fuel", "FOSSIL_FUEL"} -> 35

(* C9: recharge() leaves a level >= 100 alone and otherwise sets it to    *)
(* min(100, old + rate), rate = 15 + 2*legs (solar), 25 + legs            *)
(* (electric), 35 (fossil_fuel), the source compared case-insensitively;  *)
(* position, orientation and is_active stay, active or not.               *)
Thm_C9 ==
    [][ lastOp' = "recharge"
          => /\ err' = "none"
             /\ generator_level >= 100 => generator_level' = generator_level
             /\ generator_level < 100
                  => generator_level' = Min(100, generator_level + SpecRechargeRate)
             /\ position' = position
             /\ orientation' = orientation
             /\ is_active' = is_active ]_vars

(* an inactive robot with an upper-case source was partly recharged *)
Wit_C9 ==
    /\ lastOp = "recharge" /\ ~is_active /\ energy_source = "ELECTRIC"
    /\ generator_level \in 1..99

(* C10: with otherwise valid parameters construction succeeds exactly     *)
(* when legCount is an even integer >= 2, and a constructed robot is      *)
(* active at level 100.                                                   *)
Claim_C10 ==
    (lastOp = "new" /\ args.id_ok /\ Lower(args.energy_source) \in ENERGY_SOURCE)
      => /\ (obj = "alive")
              <=> (args.legs.kind = "int" /\ args.legs.v >= 2 /\ args.legs.v % 2 = 0)
         /\ obj = "alive" => (is_active /\ generator_level = 100)

(* C11: ExplorerRobot.move() with battery >= 10 puts the position at      *)
(* (x+1, y+1) and takes exactly 10 off the battery; with battery < 10     *)
(* (5, say) neither changes; move and scan_area never change              *)
(* sensor_range.                                                          *)
Thm_C11 ==
    [][ obj = "explorer" =>
          /\ lastOp' = "move" =>
               IF battery_level >= 10
                 THEN /\ position' = <<position[1] + 1, position[2] + 1>>
                      /\ battery_level' = battery_level - 10
                 ELSE /\ position' = position
                      /\ battery_level' = battery_level
          /\ lastOp' \in {"move", "scan_area"} => sensor_range' = sensor_range ]_vars

(* an explorer at battery 5 was refused a move *)
Wit_C11 ==
    /\ obj = "explorer" /\ lastOp = "move" /\ battery_level = 5
    /\ printed[1] = "pas assez de batterie pour bouger"

(* C12: DeliveryRobot.move() with battery >= 15 puts the position at      *)
(* destination and takes exactly 15 off the battery; with battery < 15    *)
(* neither changes; payload and destination stay in both cases.           *)
Thm_C12 ==
    [][ (obj = "delivery" /\ lastOp' = "move") =>
          /\ IF battery_level >= 15
               THEN /\ position' = destination
                    /\ battery_level' = battery_level - 15
               ELSE /\ position' = position
                    /\ battery_level' = battery_level
          /\ payload' = payload
          /\ destination' = destination ]_vars

(* a loaded delivery robot spent its last 15 on a move to its destination *)
Wit_C12 ==
    /\ obj = "delivery" /\ lastOp = "move" /\ battery_level = 0
    /\ position = destination /\ payload = "Colis A"

(* C13: unload() reports the item of the latest load not yet unloaded and *)
(* leaves the payload empty; load(item) sets the payload to item whatever *)
(* it held; neither changes position or battery.                          *)
Thm_C13 ==
    [][ obj = "delivery" =>
          /\ lastOp' = "unload" =>
               /\ printed' = <<"a livre", pending>>
               /\ payload' = "None"
               /\ position' = position
               /\ battery_level' = battery_level
          /\ lastOp' = "load" =>
               \A item \in Items :
                 Load(item) => /\ payload' = item
                               /\ position' = position
                               /\ battery_level' = battery_level ]_vars

(* "Colis A", loaded before a move, has been reported delivered *)
Wit_C13 ==
    /\ obj = "delivery" /\ lastOp = "unload" /\ moves > 0
    /\ printed = <<"a livre", "Colis A">> /\ payload = "None"

(* cost of one radian of rotation as the specification states it *)
SpecCostPerRadian ==
    IF nombre_pattes = 2 THEN 30 ELSE IF nombre_pattes = 4 THEN 15 ELSE 10

(* floor(|angle| x cost per radian) for an angle of the model *)
SpecRotateCost(angle) ==
    IF angle.kind = "tiny_neg" THEN 0
    ELSE (Abs(angle.q) * PiNum * SpecCostPerRadian) \div (PiDen * 2)

(* C14: rotate(angle) on an active robot leaves generator_level at        *)
(* max(0, before - floor(|angle| x 10 / min(1, legs/6))), i.e. 30, 15, 10 *)
(* per radian for 2, 4, 6 or more legs; the cost follows |angle|, so a    *)
(* full turn is paid for although the orientation comes back.             *)
Thm_C14 ==
    [][ (is_active /\ lastOp' = "rotate") =>
          \A angle \in NumericAngles :
            Rotate(angle) =>
              /\ generator_level' = Max(0, generator_level - SpecRotateCost(angle))
              /\ (angle.kind = "num" /\ Abs(angle.q) = 4 /\ generator_level > 0)
                   => /\ generator_level' < generator_level
                      /\ orientation \in 0..3 => orientation' = orientation ]_vars

(* a 6-legged robot has paid 62 for one full turn *)
Wit_C14 ==
    /\ lastOp = "rotate" /\ err = "none" /\ is_active
    /\ nombre_pattes = 6 /\ generator_level = 38

(* C15: an active robot at generator_level 0 still carries out valid      *)
(* move and rotate calls: position and orientation change, the level      *)
(* stays 0 and nothing is raised.                                         *)
Thm_C15 ==
    [][ (is_active /\ generator_level = 0) =>
          /\ lastOp' = "move" =>
               \A direction \in Directions, distance \in ValidDistances :
                 Move(direction, distance)
                   => /\ Travelled = distance
                      /\ generator_level' = 0
                      /\ err' = "none"
          /\ lastOp' = "rotate" =>
               \A angle \in NumericAngles :
                 Rotate(angle)
                   => /\ generator_level' = 0
                      /\ err' = "none"
                      /\ (angle.kind = "num" /\ angle.q % 4 # 0)
                           => orientation' # orientation ]_vars

(* a 2-legged robot, whose moves cost nothing, has moved at level 0 *)
Wit_C15 ==
    /\ lastOp = "move" /\ err = "none" /\ is_active
    /\ nombre_pattes = 2 /\ generator_level = 0 /\ position # <<0, 0>>

(* C16: a recharge() below 100 raises the level by at least 19 (or to     *)
(* 100) without error, so after 6 recharge calls in a row the level is    *)
(* 100, where further calls leave it.                                     *)
Thm_C16 ==
    /\ [](streak >= 6 => generator_level = 100)
    /\ [][ lastOp' = "recharge" =>
             /\ err' = "none"
             /\ generator_level < 100
                  => /\ generator_level' > generator_level
                     /\ generator_level' >= Min(100, generator_level + 19)
             /\ generator_level >= 100 => generator_level' = 100 ]_vars

(* five calls in a row were not enough: 0 -> 95 *)
Wit_C16 == lastOp = "recharge" /\ streak = 5 /\ generator_level = 95

(* C17: from battery 100 without charging the battery never rises and     *)
(* stays in 0..100; an explorer makes exactly 10 moves and rests at 0, a  *)
(* delivery robot exactly 6 and rests at 10; after that a move changes    *)
(* nothing; a delivery move from the destination itself still costs 15.   *)
Thm_C17 ==
    /\ [](/\ battery_level \in 0..100
          /\ obj = "explorer" => (moves <= 10 /\ battery_level = 100 - 10 * moves)
          /\ obj = "delivery" => (/\ moves <= 6
                                  /\ battery_level = 100 - 15 * moves
                                  /\ battery_level >= 10))
    /\ [][ /\ battery_level' <= battery_level
           /\ ( /\ lastOp' = "move"
                /\ \/ (obj = "explorer" /\ moves = 10)
                   \/ (obj = "delivery" /\ moves = 6) )
                => UNCHANGED <<position, battery_level, moves, payload,
                               destination, sensor_range>>
           /\ ( /\ obj = "delivery" /\ lastOp' = "move"
                /\ position = destination /\ moves < 6 )
                => battery_level' = battery_level - 15 ]_vars

(* a delivery robot was refused its seventh move at battery 10 *)
Wit_C17 ==
    /\ obj = "delivery" /\ lastOp = "move" /\ moves = 6 /\ battery_level = 10
    /\ printed[1] = "pas assez de batterie pour livrer"

====
